---- MODULE Spec2Model ----
(***************************************************************************)
(* T-Deck-Pro server infrastructure: the hub (server.py) that routes MQTT  *)
(* messages into the SQLite stores, and its HTTP-side reads and uploads.   *)
(*                                                                         *)
(* Text.  A Python str is a sequence of symbols.  A symbol is either one   *)
(* of the delimiters the code looks at ("/" in topics; the JSON            *)
(* punctuation and blank in payloads) or a delimiter-free chunk of text    *)
(* (a word, a number, a quoted JSON string).  Two texts are equal iff      *)
(* their symbol sequences are equal: texts the code compares with each     *)
(* other are chunked the same way.                                         *)
(*                                                                         *)
(* JSON.  A decoded JSON value is kept as its compact token sequence (the  *)
(* tokens of the text without insignificant blanks); json.loads scans and  *)
(* validates, json.dumps writes the tokens with Python's default           *)
(* separators ", " and ": ".  A scalar (string, number, null) is a         *)
(* one-token value.                                                        *)
(*                                                                         *)
(* Time.  datetime.now() has microsecond resolution and every call is      *)
(* separated from the previous one by database work: successive calls      *)
(* return strictly increasing values (clock).  SQLite's CURRENT_TIMESTAMP  *)
(* has one-second resolution: successive uses may return the same second   *)
(* (wallsec).                                                              *)
(***************************************************************************)
EXTENDS Integers, Sequences, FiniteSets, TLC

\* ------------------------------------------------------------------ bounds
MaxClock == 6       \* datetime.now() calls the model follows
MaxTelemetry == 2   \* telemetry rows the model follows
MaxPublished == 2   \* mqtt_client.publish calls the model follows
MaxMesh == 1        \* mesh_messages rows the model follows
MaxOta == 3         \* ota_updates rows the model follows
MaxSec == 2         \* seconds of CURRENT_TIMESTAMP the model follows
MaxWork == 5        \* writes followed when hub and OTA catalog run together

\* ------------------------------------------------------------ text helpers
\* str.split(sep): the pieces between the separators ("".split("/") is [""]).
RECURSIVE split(_, _)
split(s, sep) ==
    IF \A i \in 1..Len(s) : s[i] # sep
    THEN <<s>>
    ELSE LET i == CHOOSE k \in 1..Len(s) :
                      s[k] = sep /\ \A j \in 1..(k - 1) : s[j] # sep
         IN  <<SubSeq(s, 1, i - 1)>> \o split(SubSeq(s, i + 1, Len(s)), sep)

\* A one-chunk Python str.
Str(w) == <<w>>

\* -------------------------------------------------------------------- JSON
Punct == {"{", "}", "[", "]", ":", ","}
Blank == " "
Junk == "@"         \* a byte sequence that is no JSON token
IsScalarTok(t) == t \notin Punct /\ t # Blank /\ t # Junk

\* The scanner drops insignificant whitespace between tokens.
RECURSIVE StripBlanks(_)
StripBlanks(t) ==
    IF t = <<>> THEN <<>>
    ELSE IF Head(t) = Blank THEN StripBlanks(Tail(t))
    ELSE <<Head(t)>> \o StripBlanks(Tail(t))

\* Recursive descent over compact tokens: the index after the value that
\* starts at i, or 0 when no value starts there.
RECURSIVE ValueEnd(_, _), MembersEnd(_, _), ElementsEnd(_, _)
ValueEnd(t, i) ==
    IF i > Len(t) THEN 0
    ELSE IF IsScalarTok(t[i]) THEN i + 1
    ELSE IF t[i] = "{"
         THEN IF i + 1 <= Len(t) /\ t[i + 1] = "}" THEN i + 2
              ELSE MembersEnd(t, i + 1)
    ELSE IF t[i] = "["
         THEN IF i + 1 <= Len(t) /\ t[i + 1] = "]" THEN i + 2
              ELSE ElementsEnd(t, i + 1)
    ELSE 0

\* key : value ( , key : value )* }
MembersEnd(t, i) ==
    IF i + 1 > Len(t) \/ ~IsScalarTok(t[i]) \/ t[i + 1] # ":" THEN 0
    ELSE LET e == ValueEnd(t, i + 2)
         IN  IF e = 0 \/ e > Len(t) THEN 0
             ELSE IF t[e] = "}" THEN e + 1
             ELSE IF t[e] = "," THEN MembersEnd(t, e + 1)
             ELSE 0

\* value ( , value )* ]
ElementsEnd(t, i) ==
    LET e == ValueEnd(t, i)
    IN  IF e = 0 \/ e > Len(t) THEN 0
        ELSE IF t[e] = "]" THEN e + 1
        ELSE IF t[e] = "," THEN ElementsEnd(t, e + 1)
        ELSE 0

DecodeError == <<Junk>>

\* json.loads(text): the decoded value, or DecodeError when it raises.
json_loads(text) ==
    LET t == StripBlanks(text)
    IN  IF t # <<>> /\ ValueEnd(t, 1) = Len(t) + 1 THEN t ELSE DecodeError

\* json.dumps(value): item separator ", " and key separator ": ".
RECURSIVE json_dumps(_)
json_dumps(v) ==
    IF v = <<>> THEN <<>>
    ELSE IF Head(v) \in {":", ","}
         THEN <<Head(v), Blank>> \o json_dumps(Tail(v))
    ELSE <<Head(v)>> \o json_dumps(Tail(v))

\* isinstance(value, dict)
IsDict(v) == v # <<>> /\ v[1] = "{"

\* The members of a dict value, in order, as <<key, value>> pairs.
RECURSIVE MembersFrom(_, _)
MembersFrom(t, i) ==
    IF i > Len(t) \/ t[i] = "}" THEN <<>>
    ELSE LET e == ValueEnd(t, i + 2)
         IN  <<<<t[i], SubSeq(t, i + 2, e - 1)>>>>
             \o MembersFrom(t, IF t[e] = "," THEN e + 1 ELSE e)

Members(v) == MembersFrom(v, 2)

\* key in dict
HasKey(v, key) ==
    LET m == Members(v) IN \E k \in 1..Len(m) : m[k][1] = key

\* dict.get(key, default)
Get(v, key, default) ==
    LET m == Members(v)
        hits == { k \in 1..Len(m) : m[k][1] = key }
    IN  IF hits = {} THEN default ELSE m[CHOOSE k \in hits : TRUE][2]

\* None
None == Str("null")

\* sqlite3 binds str, numbers and None; a dict or a list parameter raises.
Bindable(v) == Len(v) = 1 /\ IsScalarTok(v[1])

\* ------------------------------------------------------------------ inputs
\* The protocol namespace and the message classes are the literals of the code.
Topic2(a, b) == <<a, "/", b>>
Topic3(a, b, c) == <<a, "/", b, "/", c>>
Topic4(a, b, c, d) == <<a, "/", b, "/", c, "/", d>>

RegA ==
    <<"{", "device_type", ":", " ", "t-deck-pro", ",", " ",
      "firmware_version", ":", " ", "1.0.0", ",", " ",
      "config", ":", " ", "{", "timezone", ":", " ", "UTC", "}", "}">>
RegB == <<"{", "firmware_version", ":", "2.0.0", "}">>
StatusOffline == <<"{", "status", ":", " ", "offline", "}">>
EmptyObject == <<"{", "}">>
MeshText ==
    <<"{", "from_node", ":", "n1", ",", "to_node", ":", "n2", ",",
      "message_type", ":", "text", ",",
      "payload", ":", "{", "text", ":", "hi", "}", "}">>
Battery85 == <<"{", "battery", ":", " ", "85", "}">>
BatteryRssi == <<"{", "battery", ":", "85", ",", "rssi", ":", "-70", "}">>
ListPayload == <<"[", "1", "]">>
NotJson == <<"{", "status", Junk>>

Msg(topic, payload) == [topic |-> topic, payload |-> payload]

\* Messages a shared broker may deliver, as raw topic and raw payload: the
\* subscribed topics with well-formed and ill-formed payloads, and noise.
Messages ==
    { Msg(Topic3("tdeckpro", "d1", "register"), RegA),
      Msg(Topic3("tdeckpro", "d1", "register"), RegB),
      Msg(Topic3("tdeckpro", "d1", "register"), ListPayload),
      Msg(Topic3("tdeckpro", "d1", "register"), NotJson),
      Msg(Topic3("tdeckpro", "d2", "register"), RegA),
      Msg(Topic3("tdeckpro", "d1", "telemetry"), Battery85),
      Msg(Topic3("tdeckpro", "d1", "telemetry"), EmptyObject),
      Msg(Topic3("tdeckpro", "d1", "telemetry"), NotJson),
      Msg(Topic3("tdeckpro", "d2", "telemetry"), BatteryRssi),
      Msg(Topic3("tdeckpro", "d1", "status"), StatusOffline),
      Msg(Topic3("tdeckpro", "d1", "status"), EmptyObject),
      Msg(Topic3("tdeckpro", "d1", "status"), ListPayload),
      Msg(Topic4("tdeckpro", "d1", "status", "x"), StatusOffline),
      Msg(Topic3("tdeckpro", "mesh", "text"), MeshText),
      Msg(Topic3("tdeckpro", "mesh", "text"), ListPayload),
      Msg(Topic3("tdeckpro", "mesh", "register"), MeshText),
      Msg(Topic3("tdeckpro", "mesh", "status"), MeshText),
      Msg(Topic3("tdeckpro", "d1", "config"), RegA),
      Msg(Topic3("other", "d1", "register"), RegA),
      Msg(Topic2("tdeckpro", "d1"), RegA) }

\* limit values of GET /api/device/{device_id}/telemetry (any int).
Limits == {-1, 0, 1, 2}

\* ------------------------------------------------------------------- state
VARIABLES
    devices,        \* table devices: device_id -> row
    telemetry,      \* table telemetry: rows in insertion (id) order
    mesh_messages,  \* table mesh_messages: rows in insertion (id) order
    ota_updates,    \* table ota_updates: rows in insertion (id) order
    ota_files,      \* directory data/ota-updates: filename -> content
    self_devices,   \* TDeckProServer.devices, the in-memory cache
    published,      \* calls of mqtt_client.publish, in order
    clock,          \* the value the last datetime.now() returned
    wallsec,        \* the value the last CURRENT_TIMESTAMP returned
    config_handler, \* TDeckProMQTTClient.config_handler of the device d1
    ota_handler,    \* TDeckProMQTTClient.ota_handler
    app_handler,    \* TDeckProMQTTClient.app_handler
    connected,      \* TDeckProMQTTClient.connected
    link,           \* the paho client's connection to the broker
    event,          \* the connection event the client saw last
    txn,            \* handle_telemetry's connection while it runs step by step
    last            \* the operation handled last, with its inputs and result

hubVars == <<devices, telemetry, mesh_messages, self_devices, published, clock>>
otaVars == <<ota_updates, ota_files, wallsec>>
clientVars == <<config_handler, ota_handler, app_handler>>
connVars == <<connected, link, event>>
vars == <<devices, telemetry, mesh_messages, ota_updates, ota_files,
          self_devices, published, clock, wallsec,
          config_handler, ota_handler, app_handler,
          connected, link, event, txn, last>>

NoRows == [x \in {} |-> x]

\* Every store and clock as one value.
Snapshot ==
    [ devices |-> devices, telemetry |-> telemetry,
      mesh_messages |-> mesh_messages, ota_updates |-> ota_updates,
      ota_files |-> ota_files, self_devices |-> self_devices,
      published |-> published, clock |-> clock, wallsec |-> wallsec ]

\* The hub's message-path state as one value, with the two things a handler
\* reports: which handler ran (called) and whether an exception left it.
\* rc is what mqtt_client.publish will report if it is called; config_sent
\* lists the calls of send_device_config with that rc and the value returned.
Hub ==
    [ devices |-> devices, telemetry |-> telemetry,
      mesh_messages |-> mesh_messages, self_devices |-> self_devices,
      published |-> published, clock |-> clock,
      called |-> <<>>, raised |-> FALSE,
      rc |-> "MQTT_ERR_SUCCESS", config_sent |-> <<>> ]

\* The rc of paho's publish: queued for sending, or refused because the
\* client has no connection to the broker.
PublishResults == {"MQTT_ERR_SUCCESS", "MQTT_ERR_NO_CONN"}

Online == Str("online")

\* ---------------------------------------------------------------- handlers
\* Mutant: an upsert that keeps the stored device_type when the new
\* registration carries none.
UpsertDevice_Merge(devs, device_id, row) ==
    [x \in DOMAIN devs \cup {device_id} |->
        IF x # device_id THEN devs[x]
        ELSE IF device_id \in DOMAIN devs /\ row.device_type = Str("unknown")
             THEN [row EXCEPT !.device_type = devs[device_id].device_type]
             ELSE row]

\* INSERT OR REPLACE INTO devices: the row of device_id is replaced whole.
UpsertDevice(devs, device_id, row) ==
    [x \in DOMAIN devs \cup {device_id} |->
        IF x = device_id THEN row ELSE devs[x]]

send_device_config(s, device_id) ==
    LET now == s.clock + 1
        config == <<"{", "server_time", ":", ToString(now), ",",
                    "update_interval", ":", "300", ",",
                    "auto_update", ":", "true", "}">>
        topic == <<"tdeckpro", "/">> \o device_id \o <<"/", "config">>
    IN  [s EXCEPT !.clock = now,
                  !.published = Append(@, [topic |-> topic,
                                           payload |-> json_dumps(config)]),
                  !.config_sent = Append(@, [rc |-> s.rc, returned |-> "None"])]

\* Mutant: the welcome configuration is sent before the row is written.
handle_device_registration_PublishFirst(s, device_id, data) ==
    LET p == send_device_config(s, device_id)
        now == p.clock + 1
    IN  IF ~IsDict(data) THEN [p EXCEPT !.raised = TRUE]
        ELSE [p EXCEPT
                !.clock = now,
                !.devices = UpsertDevice(@, device_id,
                    [ device_type |-> Get(data, "device_type", Str("unknown")),
                      firmware_version |->
                          Get(data, "firmware_version", Str("0.0.0")),
                      last_seen |-> now, status |-> Online,
                      config |-> json_dumps(Get(data, "config", <<"{", "}">>)) ])]

\* Mutant: replacing the device row deletes the rows that refer to it (the
\* foreign key enforced with ON DELETE CASCADE).
handle_device_registration_Cascade(s, device_id, data) ==
    IF ~IsDict(data) THEN [s EXCEPT !.raised = TRUE]
    ELSE send_device_config(
             [s EXCEPT
                !.clock = s.clock + 1,
                !.telemetry = SelectSeq(@, LAMBDA r : r.device_id # device_id),
                !.devices = UpsertDevice(@, device_id,
                    [ device_type |-> Get(data, "device_type", Str("unknown")),
                      firmware_version |->
                          Get(data, "firmware_version", Str("0.0.0")),
                      last_seen |-> s.clock + 1, status |-> Online,
                      config |-> json_dumps(Get(data, "config", <<"{", "}">>)) ])],
             device_id)

handle_device_registration(s, device_id, data) ==
    IF ~IsDict(data) THEN [s EXCEPT !.raised = TRUE]
    ELSE
    LET device_type == Get(data, "device_type", Str("unknown"))
        firmware_version == Get(data, "firmware_version", Str("0.0.0"))
        now == s.clock + 1
        config == json_dumps(Get(data, "config", <<"{", "}">>))
        row == [ device_type |-> device_type,
                 firmware_version |-> firmware_version,
                 last_seen |-> now, status |-> Online, config |-> config ]
    IN  IF ~Bindable(device_type) \/ ~Bindable(firmware_version)
        THEN [s EXCEPT !.clock = now, !.raised = TRUE]
        ELSE send_device_config(
                 [s EXCEPT !.clock = now,
                           !.devices = UpsertDevice(@, device_id, row)],
                 device_id)

\* Mutant: the telemetry row is stored without touching the device row.
handle_telemetry_NoTouch(s, device_id, data) ==
    [s EXCEPT
        !.telemetry = Append(@, [ id |-> Len(@) + 1, device_id |-> device_id,
                                  timestamp |-> s.clock + 2,
                                  data |-> json_dumps(data) ]),
        !.self_devices =
            [x \in DOMAIN @ \cup {device_id} |->
                IF x = device_id
                THEN [last_seen |-> s.clock + 3, telemetry |-> data]
                ELSE @[x]],
        !.clock = s.clock + 3]

\* Mutant: UPDATE devices SET last_seen = ? without status = 'online'.
handle_telemetry_KeepStatus(s, device_id, data) ==
    [s EXCEPT
        !.devices = IF device_id \in DOMAIN @
                    THEN [@ EXCEPT ![device_id].last_seen = s.clock + 1]
                    ELSE @,
        !.telemetry = Append(@, [ id |-> Len(@) + 1, device_id |-> device_id,
                                  timestamp |-> s.clock + 2,
                                  data |-> json_dumps(data) ]),
        !.self_devices =
            [x \in DOMAIN @ \cup {device_id} |->
                IF x = device_id
                THEN [last_seen |-> s.clock + 3, telemetry |-> data]
                ELSE @[x]],
        !.clock = s.clock + 3]

\* Mutant: the cache entry is made for a device's first telemetry and then
\* kept.
handle_telemetry_StaleCache(s, device_id, data) ==
    [s EXCEPT
        !.devices = IF device_id \in DOMAIN @
                    THEN [@ EXCEPT ![device_id].last_seen = s.clock + 1,
                                   ![device_id].status = Online]
                    ELSE @,
        !.telemetry = Append(@, [ id |-> Len(@) + 1, device_id |-> device_id,
                                  timestamp |-> s.clock + 2,
                                  data |-> json_dumps(data) ]),
        !.self_devices =
            [x \in DOMAIN @ \cup {device_id} |->
                IF x \in DOMAIN @ THEN @[x]
                ELSE [last_seen |-> s.clock + 3, telemetry |-> data]],
        !.clock = s.clock + 3]

handle_telemetry(s, device_id, data) ==
    LET t1 == s.clock + 1
        t2 == s.clock + 2
        t3 == s.clock + 3
        row == [ id |-> Len(s.telemetry) + 1, device_id |-> device_id,
                 timestamp |-> t2, data |-> json_dumps(data) ]
    IN  [s EXCEPT
            !.devices = IF device_id \in DOMAIN @
                        THEN [@ EXCEPT ![device_id].last_seen = t1,
                                       ![device_id].status = Online]
                        ELSE @,
            !.telemetry = Append(@, row),
            !.self_devices =
                [x \in DOMAIN @ \cup {device_id} |->
                    IF x = device_id
                    THEN [last_seen |-> t3, telemetry |-> data]
                    ELSE @[x]],
            !.clock = t3]

\* Mutant: the status is written with INSERT OR REPLACE, which makes a row
\* for a device that has none.
handle_status_update_Upsert(s, device_id, data) ==
    IF ~IsDict(data) THEN [s EXCEPT !.raised = TRUE]
    ELSE [s EXCEPT
            !.devices =
                [x \in DOMAIN @ \cup {device_id} |->
                    IF x # device_id THEN @[x]
                    ELSE IF device_id \in DOMAIN @
                         THEN [@[x] EXCEPT
                                 !.status = Get(data, "status", Str("unknown")),
                                 !.last_seen = s.clock + 1]
                         ELSE [ device_type |-> Str("unknown"),
                                firmware_version |-> Str("0.0.0"),
                                last_seen |-> s.clock + 1,
                                status |-> Get(data, "status", Str("unknown")),
                                config |-> <<"{", "}">> ]],
            !.clock = s.clock + 1]

handle_status_update(s, device_id, data) ==
    IF ~IsDict(data) THEN [s EXCEPT !.raised = TRUE]
    ELSE
    LET status == Get(data, "status", Str("unknown"))
        now == s.clock + 1
    IN  IF ~Bindable(status) THEN [s EXCEPT !.clock = now, !.raised = TRUE]
        ELSE [s EXCEPT
                !.devices = IF device_id \in DOMAIN @
                            THEN [@ EXCEPT ![device_id].status = status,
                                           ![device_id].last_seen = now]
                            ELSE @,
                !.clock = now]

\* Mutant: the whole message is stored as the payload.
handle_mesh_message_WholeMessage(s, message_type, data) ==
    IF ~IsDict(data) THEN [s EXCEPT !.raised = TRUE]
    ELSE [s EXCEPT !.mesh_messages =
            Append(@, [ id |-> Len(@) + 1,
                        from_node |-> Get(data, "from_node", None),
                        to_node |-> Get(data, "to_node", None),
                        message_type |-> message_type,
                        payload |-> json_dumps(data) ])]

\* Mutant: a payload that is no field map is stored as a message without
\* sender and receiver.
handle_mesh_message_NoTypeCheck(s, message_type, data) ==
    [s EXCEPT !.mesh_messages =
        Append(@, [ id |-> Len(@) + 1,
                    from_node |-> IF IsDict(data)
                                  THEN Get(data, "from_node", None) ELSE None,
                    to_node |-> IF IsDict(data)
                                THEN Get(data, "to_node", None) ELSE None,
                    message_type |-> message_type,
                    payload |-> json_dumps(IF IsDict(data)
                                           THEN Get(data, "payload", <<"{", "}">>)
                                           ELSE <<"{", "}">>) ])]

handle_mesh_message(s, message_type, data) ==
    IF ~IsDict(data) THEN [s EXCEPT !.raised = TRUE]
    ELSE
    LET from_node == Get(data, "from_node", None)
        to_node == Get(data, "to_node", None)
        row == [ id |-> Len(s.mesh_messages) + 1,
                 from_node |-> from_node, to_node |-> to_node,
                 message_type |-> message_type,
                 payload |-> json_dumps(Get(data, "payload", <<"{", "}">>)) ]
    IN  IF ~Bindable(from_node) \/ ~Bindable(to_node)
        THEN [s EXCEPT !.raised = TRUE]
        ELSE [s EXCEPT !.mesh_messages = Append(@, row)]

\* Mutant: the namespace test is missing.
TopicAccepted_AnyNamespace(topic_parts) == Len(topic_parts) >= 3

\* The topic test of on_mqtt_message: at least three segments, first "tdeckpro".
TopicAccepted(topic_parts) ==
    Len(topic_parts) >= 3 /\ topic_parts[1] = Str("tdeckpro")

\* The handler chosen for an accepted topic: the message class is looked at
\* first, the mesh namespace only when the class is none of the three.
Route(topic_parts) ==
    LET message_type == topic_parts[3]
    IN  IF message_type = Str("register") THEN "handle_device_registration"
        ELSE IF message_type = Str("telemetry") THEN "handle_telemetry"
        ELSE IF message_type = Str("status") THEN "handle_status_update"
        ELSE IF topic_parts[2] = Str("mesh") THEN "handle_mesh_message"
        ELSE "none"

on_mqtt_message(s, topic, payload) ==
    LET topic_parts == split(topic, "/")
    IN  IF ~TopicAccepted(topic_parts) THEN s
        ELSE
        LET device_id == topic_parts[2]
            message_type == topic_parts[3]
            data == json_loads(payload)
            h == Route(topic_parts)
        IN  IF data = DecodeError THEN [s EXCEPT !.raised = TRUE]
            ELSE IF h = "handle_device_registration"
                 THEN handle_device_registration(
                          [s EXCEPT !.called = <<h, device_id>>], device_id, data)
            ELSE IF h = "handle_telemetry"
                 THEN handle_telemetry(
                          [s EXCEPT !.called = <<h, device_id>>], device_id, data)
            ELSE IF h = "handle_status_update"
                 THEN handle_status_update(
                          [s EXCEPT !.called = <<h, device_id>>], device_id, data)
            ELSE IF h = "handle_mesh_message"
                 THEN handle_mesh_message(
                          [s EXCEPT !.called = <<h, message_type>>],
                          message_type, data)
            ELSE s

\* ------------------------------------------------------------------- reads
\* ORDER BY key DESC: of keyed rows [key, row], the greatest key first.
RECURSIVE OrderDesc(_)
OrderDesc(keyed) ==
    IF keyed = {} THEN <<>>
    ELSE LET top == CHOOSE r \in keyed : \A q \in keyed : q.key <= r.key
         IN  <<top.row>> \o OrderDesc(keyed \ {top})

\* LIMIT n: the first n rows; SQLite reads a negative n as no limit.
Limit(rows, n) ==
    IF n < 0 \/ n >= Len(rows) THEN rows ELSE SubSeq(rows, 1, n)

\* Mutant: ORDER BY timestamp ASC.
get_device_telemetry_Ascending(tel, device_id, limit) ==
    LET rows == { [key |-> 0 - tel[i].timestamp, row |-> tel[i]] :
                    i \in { j \in 1..Len(tel) : tel[j].device_id = device_id } }
        picked == Limit(OrderDesc(rows), limit)
    IN  [i \in 1..Len(picked) |->
            [timestamp |-> picked[i].timestamp,
             data |-> json_loads(picked[i].data)]]

get_device_telemetry(tel, device_id, limit) ==
    LET rows == { [key |-> tel[i].timestamp, row |-> tel[i]] :
                    i \in { j \in 1..Len(tel) : tel[j].device_id = device_id } }
        picked == Limit(OrderDesc(rows), limit)
    IN  [i \in 1..Len(picked) |->
            [timestamp |-> picked[i].timestamp,
             data |-> json_loads(picked[i].data)]]

\* Mutant: ORDER BY device_id DESC.
get_device_list_ByDeviceId(devs) ==
    LET rows == { [key |-> IF d = Str("d1") THEN 1 ELSE 2,
                   row |-> [device_id |-> d,
                            device_type |-> devs[d].device_type,
                            firmware_version |-> devs[d].firmware_version,
                            last_seen |-> devs[d].last_seen,
                            status |-> devs[d].status]] : d \in DOMAIN devs }
    IN  OrderDesc(rows)

get_device_list(devs) ==
    LET rows == { [key |-> devs[d].last_seen,
                   row |-> [device_id |-> d,
                            device_type |-> devs[d].device_type,
                            firmware_version |-> devs[d].firmware_version,
                            last_seen |-> devs[d].last_seen,
                            status |-> devs[d].status]] : d \in DOMAIN devs }
    IN  OrderDesc(rows)

\* --------------------------------------------------------------------- OTA
\* Versions are compared character by character: their text is chunked into
\* single characters.
V_1_0_0 == <<"1", ".", "0", ".", "0">>
V_1_2_0 == <<"1", ".", "2", ".", "0">>
V_9_0_0 == <<"9", ".", "0", ".", "0">>
V_10_0_0 == <<"1", "0", ".", "0", ".", "0">>

\* The code point of a character.
Code(c) ==
    CASE c = "." -> 46
      [] c = "0" -> 48
      [] c = "1" -> 49
      [] c = "2" -> 50
      [] c = "9" -> 57

\* Mutant: the longer version is the greater one, equal lengths compare by
\* character (the numeric order of versions written alike).
TextGreater_LengthFirst(a, b) ==
    IF Len(a) # Len(b) THEN Len(a) > Len(b)
    ELSE \E k \in 1..Len(a) :
            /\ Code(a[k]) > Code(b[k])
            /\ \A j \in 1..(k - 1) : a[j] = b[j]

\* SQLite's a > b on TEXT under the BINARY collation: memcmp, then length.
RECURSIVE TextGreater(_, _)
TextGreater(a, b) ==
    IF a = <<>> THEN FALSE
    ELSE IF b = <<>> THEN TRUE
    ELSE IF Code(Head(a)) # Code(Head(b)) THEN Code(Head(a)) > Code(Head(b))
    ELSE TextGreater(Tail(a), Tail(b))

\* hashlib.sha256(content).hexdigest(): a digest that names the content.
sha256(content) == <<"sha256", content>>

Upload(filename, content, version, type) ==
    [filename |-> filename, content |-> content, version |-> version,
     type |-> type]

\* Requests POST /api/ota/upload may receive.
Uploads ==
    { Upload(Str("fw.bin"), "bytes1", V_1_2_0, Str("firmware")),
      Upload(Str("fw.bin"), "bytes2", V_10_0_0, Str("firmware")),
      Upload(Str("fw1.bin"), "bytes1", V_1_0_0, Str("firmware")),
      Upload(Str("app.bin"), "bytes3", V_9_0_0, Str("app")),
      Upload(<<>>, "bytes1", V_1_2_0, Str("firmware")) }

CurrentVersions == {V_1_0_0, V_1_2_0, V_9_0_0}

\* upload_ota with CURRENT_TIMESTAMP reading second sec: the file is written
\* over any file of that name, then the catalog row is inserted.
upload_ota(s, file, sec) ==
    IF file.filename = <<>> THEN [s EXCEPT !.raised = TRUE]
    ELSE
    LET checksum == sha256(file.content)
        row == [ id |-> Len(s.ota_updates) + 1, version |-> file.version,
                 type |-> file.type, filename |-> file.filename,
                 checksum |-> checksum, created_at |-> sec ]
    IN  [s EXCEPT
            !.ota_files = [x \in DOMAIN @ \cup {file.filename} |->
                             IF x = file.filename THEN file.content ELSE @[x]],
            !.ota_updates = Append(@, row),
            !.wallsec = sec]

\* Mutant: version >= ? in place of version > ?.
check_for_updates_NotLess(ota, current_version) ==
    LET rows == { ota[i] : i \in { j \in 1..Len(ota) :
                    /\ ota[j].type = Str("firmware")
                    /\ \/ TextGreater(ota[j].version, current_version)
                       \/ ota[j].version = current_version } }
        newest == { r \in rows : \A q \in rows : q.created_at <= r.created_at }
    IN  IF rows = {} THEN { [available |-> FALSE] }
        ELSE { [ available |-> TRUE, version |-> r.version,
                 filename |-> r.filename, checksum |-> r.checksum,
                 download_url |-> <<"/ota/download/">> \o r.filename ]
               : r \in newest }

\* check_for_updates: the answers the query may give.  ORDER BY created_at
\* DESC LIMIT 1 takes a row of the greatest created_at; among rows of the
\* same second SQLite may take any.
check_for_updates(ota, current_version) ==
    LET rows == { ota[i] : i \in { j \in 1..Len(ota) :
                    /\ ota[j].type = Str("firmware")
                    /\ TextGreater(ota[j].version, current_version) } }
        newest == { r \in rows : \A q \in rows : q.created_at <= r.created_at }
    IN  IF rows = {} THEN { [available |-> FALSE] }
        ELSE { [ available |-> TRUE, version |-> r.version,
                 filename |-> r.filename, checksum |-> r.checksum,
                 download_url |-> <<"/ota/download/">> \o r.filename ]
               : r \in newest }

\* download_ota: the bytes served, or 404.
download_ota(files, filename) ==
    IF filename \in DOMAIN files
    THEN [status |-> 200, content |-> files[filename]]
    ELSE [status |-> 404]

\* ------------------------------------------- handle_telemetry step by step
\* handle_telemetry runs in the MQTT network thread while HTTP requests read
\* the database through connections of their own.  Its connection is in
\* sqlite3's default mode: the first UPDATE or INSERT opens a transaction,
\* whose writes are the connection's alone until conn.commit().
NoTxn == [pc |-> "none"]

\* sqlite3.connect: a connection that sees the database as committed.
connect(db) == [devices |-> db.devices, telemetry |-> db.telemetry]

\* Mutant: a connection in autocommit mode (isolation_level=None), where
\* the UPDATE is committed as it is executed.
execute_update_devices_Autocommit(db, conn, device_id, now) ==
    LET touch(devs) == IF device_id \in DOMAIN devs
                       THEN [devs EXCEPT ![device_id].last_seen = now,
                                         ![device_id].status = Online]
                       ELSE devs
    IN  [ db |-> [db EXCEPT !.devices = touch(@)],
          conn |-> [conn EXCEPT !.devices = touch(@)] ]

\* UPDATE devices SET last_seen = ?, status = 'online' WHERE device_id = ?
execute_update_devices(db, conn, device_id, now) ==
    [ db |-> db,
      conn |-> [conn EXCEPT !.devices =
                   IF device_id \in DOMAIN @
                   THEN [@ EXCEPT ![device_id].last_seen = now,
                                  ![device_id].status = Online]
                   ELSE @] ]

\* INSERT INTO telemetry (device_id, timestamp, data) VALUES (?, ?, ?)
execute_insert_telemetry(db, conn, device_id, now, data) ==
    [ db |-> db,
      conn |-> [conn EXCEPT !.telemetry =
                   Append(@, [ id |-> Len(@) + 1, device_id |-> device_id,
                               timestamp |-> now,
                               data |-> json_dumps(data) ])] ]

\* conn.commit(): the connection's writes become the database.
commit(db, conn) ==
    [ db |-> [devices |-> conn.devices, telemetry |-> conn.telemetry],
      conn |-> conn ]

\* The messages on_mqtt_message hands to handle_telemetry.
TelemetryMessages ==
    { msg \in Messages :
        /\ TopicAccepted(split(msg.topic, "/"))
        /\ Route(split(msg.topic, "/")) = "handle_telemetry"
        /\ json_loads(msg.payload) # DecodeError }

\* ------------------------------------------------------ device-side client
\* TDeckProMQTTClient of the device d1.  A handler is a callable the
\* application supplies; None is no handler.
NoHandler == "None"
Handlers == {"h1", "h2"}

\* The handler fields of the client as one value, with what the callback
\* reports: the handler calls it made (invoked) and whether an exception
\* reached its except clause.
Client ==
    [ config_handler |-> config_handler, ota_handler |-> ota_handler,
      app_handler |-> app_handler, invoked |-> <<>>, raised |-> FALSE ]

\* Mutant: a handler is set only while the class has none.
set_config_handler_KeepFirst(c, handler) ==
    IF c.config_handler = NoHandler
    THEN [c EXCEPT !.config_handler = handler] ELSE c

set_config_handler(c, handler) == [c EXCEPT !.config_handler = handler]
set_ota_handler(c, handler) == [c EXCEPT !.ota_handler = handler]
set_app_handler(c, handler) == [c EXCEPT !.app_handler = handler]

\* Mutant: every registered handler is told of every message.
_on_message_Broadcast(c, topic, payload) ==
    LET data == json_loads(payload)
        call(h) == IF h = NoHandler THEN <<>>
                   ELSE <<[handler |-> h, payload |-> data]>>
    IN  IF Len(split(topic, "/")) < 3 THEN c
        ELSE IF data = DecodeError THEN [c EXCEPT !.raised = TRUE]
        ELSE [c EXCEPT !.invoked = call(c.config_handler)
                           \o call(c.ota_handler) \o call(c.app_handler)]

\* TDeckProMQTTClient._on_message: the class is the third segment; the
\* class's handler, if one is set, is called with the decoded payload.
_on_message(c, topic, payload) ==
    LET topic_parts == split(topic, "/")
    IN  IF Len(topic_parts) < 3 THEN c
        ELSE
        LET message_type == topic_parts[3]
            data == json_loads(payload)
            call(h) == [c EXCEPT !.invoked =
                           Append(@, [handler |-> h, payload |-> data])]
        IN  IF data = DecodeError THEN [c EXCEPT !.raised = TRUE]
            ELSE IF message_type = Str("config") /\ c.config_handler # NoHandler
                 THEN call(c.config_handler)
            ELSE IF message_type = Str("ota") /\ c.ota_handler # NoHandler
                 THEN call(c.ota_handler)
            ELSE IF message_type = Str("apps") /\ c.app_handler # NoHandler
                 THEN call(c.app_handler)
            ELSE c

ConfigPayload ==
    <<"{", "update_interval", ":", " ", "300", ",", " ",
      "auto_update", ":", " ", "true", "}">>

\* Messages the network loop may hand to the callback of d1's client, which
\* is given every PUBLISH the broker sends: its three subscriptions, a
\* topic too short to name a class, and topics of another namespace and of
\* another device.
ClientMessages ==
    { Msg(Topic3("tdeckpro", "d1", "config"), ConfigPayload),
      Msg(Topic3("other", "d1", "config"), ConfigPayload),
      Msg(Topic3("tdeckpro", "d2", "ota"), ConfigPayload),
      Msg(Topic3("tdeckpro", "d1", "config"), NotJson),
      Msg(Topic3("tdeckpro", "d1", "ota"), ConfigPayload),
      Msg(Topic3("tdeckpro", "d1", "ota"), ListPayload),
      Msg(Topic3("tdeckpro", "d1", "apps"), ConfigPayload),
      Msg(Topic3("tdeckpro", "d1", "apps"), NotJson),
      Msg(Topic2("tdeckpro", "d1"), ConfigPayload) }

\* ------------------------------------------- device-side client: sending
\* A dict built from its members, in order.
RECURSIVE FromMembersTail(_)
FromMembersTail(m) ==
    IF m = <<>> THEN <<"}">>
    ELSE <<",", m[1][1], ":">> \o m[1][2] \o FromMembersTail(Tail(m))
FromMembers(m) ==
    IF m = <<>> THEN <<"{", "}">>
    ELSE <<"{", m[1][1], ":">> \o m[1][2] \o FromMembersTail(Tail(m))

\* d[key] = value: the value of key is replaced, a new key goes last.
DictSet(d, key, value) ==
    LET m == Members(d)
    IN  IF HasKey(d, key)
        THEN FromMembers([i \in 1..Len(m) |->
                            IF m[i][1] = key THEN <<key, value>> ELSE m[i]])
        ELSE FromMembers(Append(m, <<key, value>>))

\* d.update(other)
RECURSIVE UpdateFrom(_, _)
UpdateFrom(d, m) ==
    IF m = <<>> THEN d
    ELSE UpdateFrom(DictSet(d, m[1][1], m[1][2]), Tail(m))
DictUpdate(d, other) == UpdateFrom(d, Members(other))

\* datetime.now().isoformat() on the device.
DeviceNow == Str("2026-01-01T00:00:00")

\* The device id the client was made with.
DeviceId == Str("d1")

\* The client on the sending side: the connected flag, the rc the next
\* publish of the paho client will report, the publishes made (sent) and
\* the value returned.
Sender ==
    [ connected |-> connected, rc |-> "MQTT_ERR_SUCCESS", sent |-> <<>>,
      returned |-> "None" ]

\* self.client.publish(topic, payload); return result.rc == MQTT_ERR_SUCCESS
publish(c, topic, payload) ==
    [c EXCEPT !.sent = Append(@, [topic |-> topic, payload |-> payload]),
              !.returned = IF c.rc = "MQTT_ERR_SUCCESS" THEN "True"
                           ELSE "False"]

register_device(c, device_info) ==
    IF ~c.connected THEN [c EXCEPT !.returned = "False"]
    ELSE publish(c, <<"tdeckpro", "/">> \o DeviceId \o <<"/", "register">>,
                 json_dumps(device_info))

send_telemetry(c, telemetry_data) ==
    IF ~c.connected THEN [c EXCEPT !.returned = "False"]
    ELSE publish(c, <<"tdeckpro", "/">> \o DeviceId \o <<"/", "telemetry">>,
                 json_dumps(DictSet(telemetry_data, "timestamp", DeviceNow)))

\* additional_data is a dict or None; an empty dict counts as none.
send_status(c, status, additional_data) ==
    IF ~c.connected THEN [c EXCEPT !.returned = "False"]
    ELSE
    LET status_data == DictSet(DictSet(<<"{", "}">>, "status", status),
                               "timestamp", DeviceNow)
        merged == IF additional_data # None /\ additional_data # <<"{", "}">>
                  THEN DictUpdate(status_data, additional_data)
                  ELSE status_data
    IN  publish(c, <<"tdeckpro", "/">> \o DeviceId \o <<"/", "status">>,
                json_dumps(merged))

send_mesh_message(c, from_node, to_node, message_type, payload) ==
    IF ~c.connected THEN [c EXCEPT !.returned = "False"]
    ELSE
    LET mesh_data ==
            DictSet(DictSet(DictSet(DictSet(DictSet(<<"{", "}">>,
                "from_node", from_node), "to_node", to_node),
                "message_type", message_type), "payload", payload),
                "timestamp", DeviceNow)
    IN  publish(c, <<"tdeckpro", "/", "mesh", "/">> \o message_type,
                json_dumps(mesh_data))

\* TDeckProMQTTClient._on_connect: the flag after the callback.  rc 0 is
\* "connection accepted"; any other rc leaves the flag as it is.
_on_connect(flag, rc) == IF rc = 0 THEN TRUE ELSE flag

\* The paho client's connection: no socket (closed); CONNECT sent and the
\* broker's CONNACK, with return code connack, on its way (connecting);
\* accepted (up); refused, the socket not yet closed by the broker
\* (refused).
Closed == [state |-> "closed"]
Connecting(rc) == [state |-> "connecting", connack |-> rc]
Up == [state |-> "up"]
Refused == [state |-> "refused"]

\* What the application sends.  DeviceInfo is the device_info of
\* initialize(), without its hardware_version and capabilities.
DeviceInfo == json_loads(RegA)
TelemetryData == json_loads(Battery85)
AdditionalData == {None, <<"{", "}">>, json_loads(Battery85)}

\* The CONNACK return codes the broker may answer with: accepted, or
\* refused because not authorised.
ConnackCodes == {0, 5}

\* ----------------------------------------------------------- specification
\* No call is being observed: the network loop and the HTTP server wait.
Idle == [op |-> "idle"]

Init ==
    /\ devices = NoRows
    /\ telemetry = <<>>
    /\ mesh_messages = <<>>
    /\ ota_updates = <<>>
    /\ ota_files = NoRows
    /\ self_devices = NoRows
    /\ published = <<>>
    /\ clock = 0
    /\ wallsec = 0
    /\ config_handler = NoHandler
    /\ ota_handler = NoHandler
    /\ app_handler = NoHandler
    /\ connected = FALSE
    /\ link = Closed
    /\ event = "none"
    /\ txn = NoTxn
    /\ last = Idle

\* The broker delivers one message to the hub's callback.
MqttMessage ==
    \E msg \in Messages, rc \in PublishResults :
        LET r == on_mqtt_message([Hub EXCEPT !.rc = rc], msg.topic, msg.payload)
        IN  /\ last = Idle
            /\ txn = NoTxn
            /\ r.clock <= MaxClock
            /\ Len(r.telemetry) <= MaxTelemetry
            /\ Len(r.published) <= MaxPublished
            /\ Len(r.mesh_messages) <= MaxMesh
            /\ devices' = r.devices
            /\ telemetry' = r.telemetry
            /\ mesh_messages' = r.mesh_messages
            /\ self_devices' = r.self_devices
            /\ published' = r.published
            /\ clock' = r.clock
            /\ last' = [op |-> "on_mqtt_message", topic |-> msg.topic,
                        payload |-> msg.payload, called |-> r.called,
                        raised |-> r.raised, config_sent |-> r.config_sent,
                        before |-> Snapshot]
            /\ UNCHANGED <<otaVars, clientVars, connVars, txn>>

\* GET /api/devices
ApiDevices ==
    /\ last = Idle
    /\ last' = [op |-> "get_device_list", result |-> get_device_list(devices)]
    /\ UNCHANGED <<hubVars, otaVars, clientVars, connVars, txn>>

\* GET /api/device/{device_id}/telemetry?limit=
ApiDeviceTelemetry ==
    \E d \in {Str("d1"), Str("d2")}, limit \in Limits :
        /\ last = Idle
        /\ last' = [op |-> "get_device_telemetry", device_id |-> d,
                    limit |-> limit,
                    result |-> get_device_telemetry(telemetry, d, limit)]
        /\ UNCHANGED <<hubVars, otaVars, clientVars, connVars, txn>>

\* POST /api/ota/upload
UploadOta ==
    \E file \in Uploads, sec \in {wallsec, wallsec + 1} :
        LET r == upload_ota([ota_updates |-> ota_updates,
                             ota_files |-> ota_files, wallsec |-> wallsec,
                             raised |-> FALSE], file, sec)
        IN  /\ last = Idle
            /\ sec <= MaxSec
            /\ Len(r.ota_updates) <= MaxOta
            /\ ota_updates' = r.ota_updates
            /\ ota_files' = r.ota_files
            /\ wallsec' = r.wallsec
            /\ last' = [op |-> "upload_ota", file |-> file,
                        raised |-> r.raised, before |-> Snapshot]
            /\ UNCHANGED <<hubVars, clientVars, connVars, txn>>

\* GET /api/device/{device_id}/updates?current_version=
ApiCheckUpdates ==
    \E current_version \in CurrentVersions :
        \E result \in check_for_updates(ota_updates, current_version) :
            /\ last = Idle
            /\ last' = [op |-> "check_for_updates",
                        current_version |-> current_version,
                        result |-> result]
            /\ UNCHANGED <<hubVars, otaVars, clientVars, connVars, txn>>

\* GET /ota/download/{filename}
DownloadOta ==
    \E filename \in { u.filename : u \in Uploads } \ {<<>>} :
        /\ last = Idle
        /\ last' = [op |-> "download_ota", filename |-> filename,
                    result |-> download_ota(ota_files, filename)]
        /\ UNCHANGED <<hubVars, otaVars, clientVars, connVars, txn>>

\* The application sets the handler of a message class (None unsets it).
SetHandler(op, handler, c) ==
    /\ last = Idle
    /\ config_handler' = c.config_handler
    /\ ota_handler' = c.ota_handler
    /\ app_handler' = c.app_handler
    /\ last' = [op |-> op, handler |-> handler, before |-> Client]
    /\ UNCHANGED <<hubVars, otaVars, connVars, txn>>

SetConfigHandler ==
    \E h \in Handlers \cup {NoHandler} :
        SetHandler("set_config_handler", h, set_config_handler(Client, h))

SetOtaHandler ==
    \E h \in Handlers \cup {NoHandler} :
        SetHandler("set_ota_handler", h, set_ota_handler(Client, h))

SetAppHandler ==
    \E h \in Handlers \cup {NoHandler} :
        SetHandler("set_app_handler", h, set_app_handler(Client, h))

\* The broker delivers one message to the client's callback.
ClientMessage ==
    \E msg \in ClientMessages :
        LET r == _on_message(Client, msg.topic, msg.payload)
        IN  /\ last = Idle
            /\ last' = [op |-> "_on_message", topic |-> msg.topic,
                        payload |-> msg.payload, invoked |-> r.invoked,
                        raised |-> r.raised]
            /\ UNCHANGED <<hubVars, otaVars, clientVars, connVars, txn>>

Database == [devices |-> devices, telemetry |-> telemetry]

\* handle_telemetry, first statement: the connection is opened and the
\* UPDATE is executed in a new transaction.
TelemetryUpdate ==
    \E msg \in TelemetryMessages :
        LET device_id == split(msg.topic, "/")[2]
            r == execute_update_devices(Database, connect(Database),
                                        device_id, clock + 1)
        IN  /\ last = Idle
            /\ txn = NoTxn
            /\ clock + 3 <= MaxClock
            /\ Len(telemetry) < MaxTelemetry
            /\ devices' = r.db.devices
            /\ telemetry' = r.db.telemetry
            /\ clock' = clock + 1
            /\ txn' = [ pc |-> "updated", device_id |-> device_id,
                        data |-> json_loads(msg.payload), conn |-> r.conn,
                        before |-> Snapshot ]
            /\ UNCHANGED <<mesh_messages, self_devices, published, otaVars,
                           clientVars, connVars, last>>

\* Second statement: the INSERT is executed in the same transaction.
TelemetryInsert ==
    LET r == execute_insert_telemetry(Database, txn.conn, txn.device_id,
                                      clock + 1, txn.data)
    IN  /\ txn.pc = "updated"
        /\ devices' = r.db.devices
        /\ telemetry' = r.db.telemetry
        /\ clock' = clock + 1
        /\ txn' = [txn EXCEPT !.pc = "inserted", !.conn = r.conn]
        /\ UNCHANGED <<mesh_messages, self_devices, published, otaVars,
                       clientVars, connVars, last>>

\* The INSERT raises (the disk is full, the database is locked): the
\* exception leaves handle_telemetry before conn.commit().
TelemetryInsertFails ==
    /\ txn.pc = "updated"
    /\ clock' = clock + 1
    /\ txn' = [txn EXCEPT !.pc = "failed"]
    /\ UNCHANGED <<devices, telemetry, mesh_messages, self_devices, published,
                   otaVars, clientVars, connVars, last>>

\* conn.commit()
TelemetryCommit ==
    LET r == commit(Database, txn.conn)
    IN  /\ txn.pc = "inserted"
        /\ devices' = r.db.devices
        /\ telemetry' = r.db.telemetry
        /\ txn' = [txn EXCEPT !.pc = "committed"]
        /\ UNCHANGED <<mesh_messages, self_devices, published, clock,
                       otaVars, clientVars, connVars, last>>

\* The cache entry is written and handle_telemetry returns.
TelemetryCache ==
    /\ txn.pc = "committed"
    /\ self_devices' =
            [x \in DOMAIN self_devices \cup {txn.device_id} |->
                IF x = txn.device_id
                THEN [last_seen |-> clock + 1, telemetry |-> txn.data]
                ELSE self_devices[x]]
    /\ clock' = clock + 1
    /\ txn' = NoTxn
    /\ UNCHANGED <<devices, telemetry, mesh_messages, published, otaVars,
                   clientVars, connVars, last>>

\* on_mqtt_message logs the exception; the connection is dropped with its
\* transaction open, which rolls the transaction back.
TelemetryRollback ==
    /\ txn.pc = "failed"
    /\ txn' = NoTxn
    /\ UNCHANGED <<hubVars, otaVars, clientVars, connVars, last>>

\* TDeckProMQTTClient.connect(): self.client.connect opens a new socket
\* (dropping, without a callback, the one it had) and sends CONNECT, and
\* loop_start starts the network thread; True is returned.  The flag is not
\* touched.
Connect ==
    \E rc \in ConnackCodes :
        /\ last = Idle
        /\ link' = Connecting(rc)
        /\ last' = [op |-> "connect", returned |-> "True"]
        /\ UNCHANGED <<hubVars, otaVars, clientVars, connected, event, txn>>

\* connect() when the broker cannot be reached: self.client.connect raises
\* after dropping the socket, and False is returned.
ConnectFails ==
    /\ last = Idle
    /\ link' = Closed
    /\ last' = [op |-> "connect", returned |-> "False"]
    /\ UNCHANGED <<hubVars, otaVars, clientVars, connected, event, txn>>

\* The network thread receives the CONNACK and calls _on_connect.
OnConnect ==
    /\ link.state = "connecting"
    /\ connected' = _on_connect(connected, link.connack)
    /\ link' = IF link.connack = 0 THEN Up ELSE Refused
    /\ event' = IF link.connack = 0 THEN "_on_connect_ok"
                ELSE "_on_connect_refused"
    /\ UNCHANGED <<hubVars, otaVars, clientVars, txn, last>>

\* The connection is lost, or the broker closes it after refusing: the
\* network thread calls _on_disconnect.
OnDisconnect ==
    /\ link.state \in {"up", "refused"}
    /\ connected' = FALSE
    /\ link' = Closed
    /\ event' = "_on_disconnect"
    /\ UNCHANGED <<hubVars, otaVars, clientVars, txn, last>>

\* TDeckProMQTTClient.disconnect()
Disconnect ==
    /\ last = Idle
    /\ connected' = FALSE
    /\ link' = Closed
    /\ event' = "disconnect"
    /\ last' = [op |-> "disconnect"]
    /\ UNCHANGED <<hubVars, otaVars, clientVars, txn>>

\* A send of the client, observed: the flag it found, the rc its publish
\* would get, the value returned and the publishes made.
Sent(op, c) ==
    /\ last = Idle
    /\ last' = [op |-> op, connected |-> connected, rc |-> c.rc,
                returned |-> c.returned, sent |-> c.sent]
    /\ UNCHANGED <<hubVars, otaVars, clientVars, connVars, txn>>

RegisterDevice ==
    \E rc \in PublishResults :
        Sent("register_device",
             register_device([Sender EXCEPT !.rc = rc], DeviceInfo))

SendTelemetry ==
    \E rc \in PublishResults :
        Sent("send_telemetry",
             send_telemetry([Sender EXCEPT !.rc = rc], TelemetryData))

SendStatus ==
    \E rc \in PublishResults, additional_data \in AdditionalData :
        Sent("send_status",
             send_status([Sender EXCEPT !.rc = rc], Online, additional_data))

SendMeshMessage ==
    \E rc \in PublishResults :
        Sent("send_mesh_message",
             send_mesh_message([Sender EXCEPT !.rc = rc], DeviceId, Str("n2"),
                               Str("text"), <<"{", "text", ":", "hi", "}">>))

\* TDeckProServerIntegration.initialize(), up to the return of
\* self.mqtt_client.connect() with True.
InitializeConnect ==
    \E rc \in ConnackCodes :
        /\ last = Idle
        /\ link' = Connecting(rc)
        /\ last' = [op |-> "initialize", pc |-> "register_device",
                    connack |-> rc]
        /\ UNCHANGED <<hubVars, otaVars, clientVars, connected, event, txn>>

\* initialize() when connect() returns False: it returns False.
InitializeConnectFails ==
    /\ last = Idle
    /\ link' = Closed
    /\ last' = [op |-> "initialize", pc |-> "done", connack |-> -1,
                rc |-> "MQTT_ERR_NO_CONN", returned |-> "False",
                sent |-> <<>>]
    /\ UNCHANGED <<hubVars, otaVars, clientVars, connected, event, txn>>

\* initialize(), the rest: return self.mqtt_client.register_device(...)
InitializeRegister ==
    \E rc \in PublishResults :
        LET r == register_device([Sender EXCEPT !.rc = rc], DeviceInfo)
        IN  /\ last.op = "initialize"
            /\ last.pc = "register_device"
            /\ last' = [op |-> "initialize", pc |-> "done",
                        connack |-> last.connack, rc |-> rc,
                        returned |-> r.returned, sent |-> r.sent]
            /\ UNCHANGED <<hubVars, otaVars, clientVars, connVars, txn>>

\* The call returns to the network loop (or the HTTP response is sent).
Return ==
    /\ last # Idle
    /\ last.op = "initialize" => last.pc = "done"
    /\ last' = Idle
    /\ UNCHANGED <<hubVars, otaVars, clientVars, connVars, txn>>

\* The message path and the reads of the device and telemetry stores.
Next == MqttMessage \/ ApiDevices \/ ApiDeviceTelemetry \/ Return

Spec == Init /\ [][Next]_vars

\* The OTA catalog: uploads, update checks and downloads.
NextOta == UploadOta \/ ApiCheckUpdates \/ DownloadOta \/ Return

SpecOta == Init /\ [][NextOta]_vars

\* The message path with handle_telemetry taken statement by statement,
\* and the reads of the HTTP thread between its statements.
NextTxn ==
    MqttMessage \/ TelemetryUpdate \/ TelemetryInsert \/ TelemetryInsertFails
    \/ TelemetryCommit \/ TelemetryCache \/ TelemetryRollback
    \/ ApiDevices \/ ApiDeviceTelemetry \/ Return

SpecTxn == Init /\ [][NextTxn]_vars

\* The hub and the OTA catalog together, started on the database an
\* earlier run of the server left (setup_database keeps existing tables):
\* d1 was registered and sent telemetry, one firmware file was uploaded.
\* The server's memory (cache, MQTT client) starts empty; the rows carry
\* times before the start.
EarlierRun ==
    LET s0 == [ devices |-> NoRows, telemetry |-> <<>>, mesh_messages |-> <<>>,
                self_devices |-> NoRows, published |-> <<>>, clock |-> 0 - 5,
                called |-> <<>>, raised |-> FALSE,
                rc |-> "MQTT_ERR_SUCCESS", config_sent |-> <<>> ]
        s1 == on_mqtt_message(s0, Topic3("tdeckpro", "d1", "register"), RegA)
    IN  on_mqtt_message(s1, Topic3("tdeckpro", "d1", "telemetry"), Battery85)

EarlierUpload ==
    upload_ota([ota_updates |-> <<>>, ota_files |-> NoRows, wallsec |-> 0,
                raised |-> FALSE],
               Upload(Str("fw1.bin"), "bytes1", V_1_0_0, Str("firmware")), 0)

InitStores ==
    /\ devices = EarlierRun.devices
    /\ telemetry = EarlierRun.telemetry
    /\ mesh_messages = <<>>
    /\ ota_updates = EarlierUpload.ota_updates
    /\ ota_files = EarlierUpload.ota_files
    /\ self_devices = NoRows
    /\ published = <<>>
    /\ clock = 0
    /\ wallsec = 0
    /\ config_handler = NoHandler
    /\ ota_handler = NoHandler
    /\ app_handler = NoHandler
    /\ connected = FALSE
    /\ link = Closed
    /\ event = "none"
    /\ txn = NoTxn
    /\ last = Idle

\* The writes counted against MaxWork: one for each datetime.now() since
\* the start, two for each upload in the catalog (its file and its row).
Work == clock + 2 * Len(ota_updates)

NextStores ==
    \/ (MqttMessage /\ Work' <= MaxWork)
    \/ (UploadOta /\ Work' <= MaxWork)
    \/ ApiDevices \/ ApiDeviceTelemetry \/ ApiCheckUpdates \/ DownloadOta
    \/ Return

SpecStores == InitStores /\ [][NextStores]_vars

\* The device-side client: handler registration and inbound messages.
NextClient ==
    SetConfigHandler \/ SetOtaHandler \/ SetAppHandler \/ ClientMessage
    \/ Return

SpecClient == Init /\ [][NextClient]_vars

\* The device-side client's connection: connect and disconnect, the
\* callbacks of the network thread, the sends, and initialize().
NextConn ==
    Connect \/ ConnectFails \/ OnConnect \/ OnDisconnect \/ Disconnect
    \/ RegisterDevice \/ SendTelemetry \/ SendStatus \/ SendMeshMessage
    \/ InitializeConnect \/ InitializeConnectFails \/ InitializeRegister
    \/ Return

SpecConn == Init /\ [][NextConn]_vars

\* ================================================================== claims
\* The claims read a topic by position, independently of split: the k-th
\* segment lies between the (k-1)-th and the k-th "/".
SlashAt(t) == { i \in 1..Len(t) : t[i] = "/" }
NSegments(t) == Cardinality(SlashAt(t)) + 1
KthSlash(t, k) ==
    IF k = 0 THEN 0
    ELSE IF k > Cardinality(SlashAt(t)) THEN Len(t) + 1
    ELSE CHOOSE i \in SlashAt(t) : Cardinality({ j \in SlashAt(t) : j <= i }) = k
Segment(t, k) == SubSeq(t, KthSlash(t, k - 1) + 1, KthSlash(t, k) - 1)

Handled == last.op = "on_mqtt_message"
Dispatched(h) == Handled /\ last.called # <<>> /\ last.called[1] = h
DeviceHandlers ==
    {"handle_device_registration", "handle_telemetry", "handle_status_update"}
ClassOf(h) ==
    CASE h = "handle_device_registration" -> Str("register")
      [] h = "handle_telemetry" -> Str("telemetry")
      [] h = "handle_status_update" -> Str("status")
HubStoresUnchanged ==
    /\ devices = last.before.devices
    /\ telemetry = last.before.telemetry
    /\ mesh_messages = last.before.mesh_messages
    /\ ota_updates = last.before.ota_updates
    /\ self_devices = last.before.self_devices
NothingPublished == published = last.before.published
ConfigTopic(d) == <<"tdeckpro", "/">> \o d \o <<"/", "config">>

\* C1: a message whose topic has fewer than three segments or a first
\* segment other than "tdeckpro" reaches no handler, changes no store and no
\* cache entry and publishes nothing; for a topic with at least three
\* segments under "tdeckpro", the device handler that runs is the one of the
\* third segment and receives the second segment as device id (the mesh
\* handler receives the third segment), and a decodable register, telemetry
\* or status message always reaches its handler.
C1_TopicRouting ==
    Handled =>
        LET t == last.topic
        IN  IF NSegments(t) < 3 \/ Segment(t, 1) # Str("tdeckpro")
            THEN last.called = <<>> /\ HubStoresUnchanged /\ NothingPublished
            ELSE /\ \A h \in DeviceHandlers :
                        Dispatched(h) =>
                            /\ ClassOf(h) = Segment(t, 3)
                            /\ last.called[2] = Segment(t, 2)
                 /\ Dispatched("handle_mesh_message") =>
                        last.called[2] = Segment(t, 3)
                 /\ \A h \in DeviceHandlers :
                        ( /\ Segment(t, 3) = ClassOf(h)
                          /\ json_loads(last.payload) # DecodeError )
                        => last.called = <<h, Segment(t, 2)>>

\* C1 witness: a well-formed registration on a foreign namespace arrived
\* at a hub that holds devices, and no handler ran.
C1_Witness ==
    /\ Handled
    /\ last.topic = Topic3("other", "d1", "register")
    /\ last.payload = RegA
    /\ last.called = <<>>
    /\ devices # NoRows

RegisteredOk == Dispatched("handle_device_registration") /\ ~last.raised
DeviceFields(row) ==
    [ device_type |-> row.device_type,
      firmware_version |-> row.firmware_version,
      status |-> row.status, config |-> row.config ]

\* C2: after a handled registration of d with payload B, the record of d
\* (device_type, firmware_version, status, config) equals the record a
\* registration of d with B leaves on a store without d, whatever record d
\* had before: each field is B's, or its default when B lacks it.
C2_RegisterOverwrites ==
    RegisteredOk =>
        LET d == last.called[2]
            B == json_loads(last.payload)
            fresh == handle_device_registration(
                         [Hub EXCEPT !.devices = NoRows], d, B)
        IN  /\ d \in DOMAIN devices
            /\ DeviceFields(devices[d]) = DeviceFields(fresh.devices[d])
            /\ devices[d].device_type =
                   IF HasKey(B, "device_type")
                   THEN Get(B, "device_type", None) ELSE Str("unknown")
            /\ devices[d].firmware_version =
                   IF HasKey(B, "firmware_version")
                   THEN Get(B, "firmware_version", None) ELSE Str("0.0.0")
            /\ devices[d].config =
                   json_dumps(IF HasKey(B, "config")
                              THEN Get(B, "config", None) ELSE <<"{", "}">>)
            /\ devices[d].status = Online

\* C2 witness: a device registered before is registered again with a
\* payload that lacks a field the earlier one gave, and its record changed.
C2_Witness ==
    /\ RegisteredOk
    /\ last.payload = RegB
    /\ last.called[2] \in DOMAIN last.before.devices
    /\ last.before.devices[last.called[2]].device_type = Str("t-deck-pro")
    /\ devices[last.called[2]].device_type = Str("unknown")

\* C3: a handled registration of d leaves d online and makes exactly one
\* publish, to tdeckpro/d/config, of a configuration with an update_interval
\* field, made after the row was written (its server_time is later than the
\* row's last_seen); no other message publishes anything, and every config
\* topic ever published to is that of a device with a record.
C3_RegisterPublishesConfig ==
    /\ Handled =>
        IF RegisteredOk
        THEN LET d == last.called[2]
                 n == Len(published)
                 cfg == json_loads(published[n].payload)
             IN  /\ d \in DOMAIN devices
                 /\ devices[d].status = Online
                 /\ n = Len(last.before.published) + 1
                 /\ SubSeq(published, 1, n - 1) = last.before.published
                 /\ published[n].topic = ConfigTopic(d)
                 /\ IsDict(cfg)
                 /\ HasKey(cfg, "update_interval")
                 /\ \E t \in 1..clock :
                        /\ Get(cfg, "server_time", None) = Str(ToString(t))
                        /\ devices[d].last_seen < t
        ELSE NothingPublished
    /\ \A i \in 1..Len(published) :
            \E d \in DOMAIN devices : published[i].topic = ConfigTopic(d)

\* C3 witness: a registration of d1 was handled and the configuration for
\* d1 is the last thing published.
C3_Witness ==
    /\ RegisteredOk
    /\ last.called[2] = Str("d1")
    /\ published[Len(published)].topic = Topic3("tdeckpro", "d1", "config")

TelemetryRead == last.op = "get_device_telemetry"
Reverse(q) == [i \in 1..Len(q) |-> q[Len(q) + 1 - i]]
\* The telemetry rows of d, newest arrival first.
NewestFirst(d) == Reverse(SelectSeq(telemetry, LAMBDA r : r.device_id = d))
IsPrefixOfNewest(result, d) ==
    /\ Len(result) <= Len(NewestFirst(d))
    /\ \A i \in 1..Len(result) :
            result[i] = [ timestamp |-> NewestFirst(d)[i].timestamp,
                          data |-> json_loads(NewestFirst(d)[i].data) ]

\* C4 as claimed: get_device_telemetry(d, limit) returns at most limit
\* records, all of d, in reverse arrival order.
C4_AtMostLimit ==
    TelemetryRead =>
        /\ Len(last.result) <= last.limit
        /\ IsPrefixOfNewest(last.result, last.device_id)

\* C4 as amended: for limit >= 0 the result is the min(limit, n) newest of
\* the n records of d, newest arrival first (so [t2, t1] for limit 2 after
\* t1 then t2); for a negative limit it is all n records of d, newest first.
C4_TelemetryNewestFirst ==
    TelemetryRead =>
        LET n == Len(NewestFirst(last.device_id))
        IN  /\ IsPrefixOfNewest(last.result, last.device_id)
            /\ Len(last.result) =
                   IF last.limit < 0 \/ last.limit > n THEN n ELSE last.limit

\* C4 witness: two telemetry messages of d1 with different data were
\* handled and a read with limit 2 returned them, the later one first.
C4_Witness ==
    /\ TelemetryRead
    /\ last.device_id = Str("d1")
    /\ last.limit = 2
    /\ Len(last.result) = 2
    /\ last.result[1].timestamp > last.result[2].timestamp
    /\ last.result[1].data # last.result[2].data
    /\ last.result[1].data = json_loads(telemetry[2].data)

\* C5: every telemetry record's device_id has a record in devices.
C5_TelemetryReferencesDevice ==
    \A i \in 1..Len(telemetry) : telemetry[i].device_id \in DOMAIN devices

\* C6: a message on tdeckpro/mesh/<t> whose payload decodes to a field map
\* reaches the mesh handler and no other: one mesh row of type t is
\* appended and no device or telemetry row is created or changed.
C6_MeshTopicsReachMeshRelay ==
    ( /\ Handled
      /\ NSegments(last.topic) = 3
      /\ Segment(last.topic, 1) = Str("tdeckpro")
      /\ Segment(last.topic, 2) = Str("mesh")
      /\ IsDict(json_loads(last.payload)) )
    => /\ last.called = <<"handle_mesh_message", Segment(last.topic, 3)>>
       /\ Len(mesh_messages) = Len(last.before.mesh_messages) + 1
       /\ mesh_messages[Len(mesh_messages)].message_type
              = Segment(last.topic, 3)
       /\ devices = last.before.devices
       /\ telemetry = last.before.telemetry

UpdateCheck == last.op = "check_for_updates"
\* a after b in the lexicographic order of the characters' code points.
LexAfter(a, b) ==
    \E k \in 1..Len(a) :
        /\ \A j \in 1..(k - 1) : j <= Len(b) /\ a[j] = b[j]
        /\ k > Len(b) \/ Code(a[k]) > Code(b[k])
\* The catalog rows that qualify as an update for current_version.
Qualifying(current_version) ==
    { i \in 1..Len(ota_updates) :
        /\ ota_updates[i].type = Str("firmware")
        /\ LexAfter(ota_updates[i].version, current_version) }

OnlyFirmwareIs(v) ==
    /\ \E i \in 1..Len(ota_updates) : ota_updates[i].type = Str("firmware")
    /\ \A i \in 1..Len(ota_updates) :
            ota_updates[i].type = Str("firmware") => ota_updates[i].version = v

\* C8: with "10.0.0" the only firmware entry, check_for_updates reports no
\* update for current_version "9.0.0" and reports version "10.0.0" for
\* current_version "1.0.0".
C8_LexicographicVersions ==
    (UpdateCheck /\ OnlyFirmwareIs(V_10_0_0)) =>
        /\ last.current_version = V_9_0_0 => ~last.result.available
        /\ last.current_version = V_1_0_0 =>
                last.result.available /\ last.result.version = V_10_0_0

\* C8 witness: "10.0.0" is the only firmware entry and a check with
\* current_version "9.0.0" found no update.
C8_Witness ==
    /\ UpdateCheck
    /\ OnlyFirmwareIs(V_10_0_0)
    /\ last.current_version = V_9_0_0
    /\ ~last.result.available

\* C9: the status of every device record is "online" or "offline".
C9_StatusIsOnlineOrOffline ==
    \A d \in DOMAIN devices : devices[d].status \in {Online, Str("offline")}

\* A register, telemetry or status message of d was handled without error
\* while d was online.
HandledWhileOnline(d) ==
    /\ \E h \in DeviceHandlers : last.called = <<h, d>>
    /\ ~last.raised
    /\ d \in DOMAIN last.before.devices
    /\ last.before.devices[d].status = Online
SeenWhileHandling(d) ==
    /\ last.before.clock < devices[d].last_seen
    /\ devices[d].last_seen <= clock

\* C10 as claimed: every message handled for an online device leaves it
\* online and sets its last_seen to the handling time.
C10_OnlineStaysOnline ==
    Handled =>
        \A d \in DOMAIN devices :
            HandledWhileOnline(d) =>
                devices[d].status = Online /\ SeenWhileHandling(d)

\* C10 as amended: every message handled for an online device sets its
\* last_seen to the handling time; a register or telemetry message leaves
\* it online, a status message sets its status to the payload's status
\* field ("unknown" when the payload has none), whatever that is.
C10_OnlineUntilStatusMessage ==
    Handled =>
        \A d \in DOMAIN devices :
            HandledWhileOnline(d) =>
                /\ SeenWhileHandling(d)
                /\ devices[d].status =
                       IF last.called[1] = "handle_status_update"
                       THEN IF HasKey(json_loads(last.payload), "status")
                            THEN Get(json_loads(last.payload), "status", None)
                            ELSE Str("unknown")
                       ELSE Online

\* C10 witness: a status message carrying "offline" was handled for an
\* online device, which is now offline.
C10_Witness ==
    /\ Handled
    /\ HandledWhileOnline(Str("d1"))
    /\ last.payload = StatusOffline
    /\ devices[Str("d1")].status = Str("offline")

StatusHandledFor(d) ==
    last.op = "on_mqtt_message"
    /\ last.called = <<"handle_status_update", d>>
    /\ ~last.raised

\* C11: a status message handled for a registered device sets its last_seen
\* to the handling time; it overwrites the stored status when its payload
\* has a status field and leaves the stored status as it was when the
\* payload has none.
C11_StatusOnlyIfProvided ==
    \A d \in DOMAIN devices :
        (StatusHandledFor(d) /\ d \in DOMAIN last.before.devices) =>
            /\ SeenWhileHandling(d)
            /\ devices[d].status =
                   IF HasKey(json_loads(last.payload), "status")
                   THEN Get(json_loads(last.payload), "status", None)
                   ELSE last.before.devices[d].status

\* C12: a status message handled for a device id without a record creates
\* no record, leaves devices, telemetry, mesh_messages, ota_updates and the
\* cache as they were and publishes nothing; when its payload is a field
\* map whose status is a text (or absent) no exception is raised at all,
\* otherwise the exception ends in the callback's except clause.
C12_StatusForUnknownDeviceIsNoOp ==
    \A d \in {Str("d1"), Str("d2")} :
        ( /\ Handled
          /\ last.called = <<"handle_status_update", d>>
          /\ d \notin DOMAIN last.before.devices )
        => /\ d \notin DOMAIN devices
           /\ HubStoresUnchanged
           /\ NothingPublished
           /\ LET B == json_loads(last.payload)
              IN  (IsDict(B) /\ Bindable(Get(B, "status", None)))
                      => ~last.raised

\* C12 witness: with d2 registered and d1 not, a status message of d1
\* carrying "offline" was handled; d1 still has no record.
C12_Witness ==
    /\ StatusHandledFor(Str("d1"))
    /\ last.payload = StatusOffline
    /\ Str("d2") \in DOMAIN devices
    /\ Str("d1") \notin DOMAIN devices

TelemetryHandledFor(d) ==
    last.op = "on_mqtt_message"
    /\ last.called = <<"handle_telemetry", d>>
    /\ ~last.raised

\* C13: a telemetry message handled for a registered device d appends
\* exactly one telemetry record, of d, whose data decodes to the decoded
\* payload, and leaves d online with last_seen the handling time, whatever
\* status d had; no other device record changes.
C13_TelemetryAppendsAndTouches ==
    \A d \in DOMAIN devices :
        (TelemetryHandledFor(d) /\ d \in DOMAIN last.before.devices) =>
            LET n == Len(telemetry)
            IN  /\ n = Len(last.before.telemetry) + 1
                /\ SubSeq(telemetry, 1, n - 1) = last.before.telemetry
                /\ telemetry[n].device_id = d
                /\ json_loads(telemetry[n].data) = json_loads(last.payload)
                /\ devices[d].status = Online
                /\ SeenWhileHandling(d)
                /\ \A e \in DOMAIN devices \ {d} :
                        /\ e \in DOMAIN last.before.devices
                        /\ devices[e] = last.before.devices[e]

\* C13 witness: d1 was offline by a status message, then a telemetry
\* message of d1 was handled: d1 is online and the record is stored.
C13_Witness ==
    /\ TelemetryHandledFor(Str("d1"))
    /\ Str("d1") \in DOMAIN last.before.devices
    /\ last.before.devices[Str("d1")].status = Str("offline")
    /\ devices[Str("d1")].status = Online
    /\ telemetry[Len(telemetry)].data = json_dumps(json_loads(Battery85))

DeviceListRead == last.op = "get_device_list"

\* C18: get_device_list returns one record per device with a record, each
\* device id once, with the stored fields, and in descending last_seen
\* order: no record comes before one of a later last_seen.
C18_DeviceListByLastSeen ==
    DeviceListRead =>
        LET r == last.result
        IN  /\ Len(r) = Cardinality(DOMAIN devices)
            /\ { r[i].device_id : i \in 1..Len(r) } = DOMAIN devices
            /\ \A i \in 1..Len(r) :
                    LET row == devices[r[i].device_id]
                    IN  /\ r[i].last_seen = row.last_seen
                        /\ r[i].status = row.status
                        /\ r[i].device_type = row.device_type
                        /\ r[i].firmware_version = row.firmware_version
            /\ \A i, j \in 1..Len(r) :
                    i < j => r[i].last_seen > r[j].last_seen

\* C18 witness: d2 registered after d1, then a status message of d1 was
\* handled; the list has d1 first and d2 second.
C18_Witness ==
    /\ DeviceListRead
    /\ Len(last.result) = 2
    /\ last.result[1].device_id = Str("d1")
    /\ last.result[1].status = Str("offline")
    /\ last.result[2].device_id = Str("d2")
    /\ last.result[2].status = Online

\* C14: every call of send_device_config returns True when the publish
\* succeeded and False when it failed, raises nothing, and is made once per
\* registration (a failed publish is not repeated).
C14_PublishResultIsBoolean ==
    (Handled /\ last.config_sent # <<>>) =>
        /\ ~last.raised
        /\ Len(last.config_sent) = 1
        /\ Len(published) = Len(last.before.published) + 1
        /\ last.config_sent[1].returned =
               IF last.config_sent[1].rc = "MQTT_ERR_SUCCESS"
               THEN "True" ELSE "False"

\* The payload of the handled message is no structured data, or the message
\* went to the register, status or mesh handler with a payload that is no
\* field map.
Undecodable ==
    /\ Handled
    /\ NSegments(last.topic) >= 3
    /\ Segment(last.topic, 1) = Str("tdeckpro")
    /\ LET B == json_loads(last.payload)
       IN  \/ B = DecodeError
           \/ /\ ~IsDict(B)
              /\ \/ Segment(last.topic, 3) \in {Str("register"), Str("status")}
                 \/ /\ Segment(last.topic, 2) = Str("mesh")
                    /\ Segment(last.topic, 3) # Str("telemetry")

\* C15: a message under tdeckpro with three or more segments whose payload
\* does not decode, or (register, status, mesh) decodes to something other
\* than a field map, raises an exception that ends in the callback's except
\* clause; at most one handler was entered, none again; every store, the
\* cache, the list of publishes and the clock are as before the message, so
\* the next message is handled as if this one had not arrived.
C15_UndecodableIsDiscarded ==
    Undecodable =>
        /\ last.raised
        /\ HubStoresUnchanged
        /\ NothingPublished
        /\ last.config_sent = <<>>
        /\ clock = last.before.clock

\* C15 witness: with a device registered and a telemetry record stored, a
\* mesh message whose payload is a list was discarded.
C15_Witness ==
    /\ Undecodable
    /\ last.topic = Topic3("tdeckpro", "mesh", "text")
    /\ last.payload = ListPayload
    /\ last.raised
    /\ devices # NoRows
    /\ telemetry # <<>>

MeshHandled == Dispatched("handle_mesh_message") /\ ~last.raised

ClientHandled == last.op = "_on_message"
\* The handler registered for the class a topic names (None for a class
\* that has no handler field).
HandlerFor(topic) ==
    CASE Segment(topic, 3) = Str("config") -> config_handler
      [] Segment(topic, 3) = Str("ota") -> ota_handler
      [] Segment(topic, 3) = Str("apps") -> app_handler
      [] OTHER -> NoHandler

\* C17: setting the handler of a class replaces the handler of that class
\* and of no other (the last registration wins); an inbound message makes
\* at most one handler call, and a decodable message of a class makes
\* exactly one call, of the handler registered last for its class, with the
\* decoded payload, or none when the class has no handler.
C17_LastHandlerWins ==
    /\ last.op = "set_config_handler" =>
            /\ config_handler = last.handler
            /\ ota_handler = last.before.ota_handler
            /\ app_handler = last.before.app_handler
    /\ last.op = "set_ota_handler" =>
            /\ ota_handler = last.handler
            /\ config_handler = last.before.config_handler
            /\ app_handler = last.before.app_handler
    /\ last.op = "set_app_handler" =>
            /\ app_handler = last.handler
            /\ config_handler = last.before.config_handler
            /\ ota_handler = last.before.ota_handler
    /\ ClientHandled =>
            /\ Len(last.invoked) <= 1
            /\ ( /\ NSegments(last.topic) >= 3
                 /\ json_loads(last.payload) # DecodeError )
               => last.invoked =
                      IF HandlerFor(last.topic) = NoHandler THEN <<>>
                      ELSE << [ handler |-> HandlerFor(last.topic),
                                payload |-> json_loads(last.payload) ] >>

\* C17 witness: with h2 the config handler and h1 the ota handler, a config
\* message was delivered and only h2 was called.
C17_Witness ==
    /\ ClientHandled
    /\ last.topic = Topic3("tdeckpro", "d1", "config")
    /\ config_handler = "h2"
    /\ ota_handler = "h1"
    /\ Len(last.invoked) = 1
    /\ last.invoked[1].handler = "h2"

\* handle_telemetry has executed a statement and not committed, or has
\* failed before the commit.
Uncommitted == txn.pc \in {"updated", "inserted", "failed"}
\* What handle_telemetry as a whole makes of the state it started from.
WholeTelemetry ==
    handle_telemetry(
        [Hub EXCEPT !.devices = txn.before.devices,
                    !.telemetry = txn.before.telemetry,
                    !.self_devices = txn.before.self_devices,
                    !.clock = txn.before.clock],
        txn.device_id, txn.data)

\* C19: while handle_telemetry has executed its UPDATE, or its UPDATE and
\* INSERT, and has not committed, the database other connections read is
\* the one from before the message: a get_device_list or
\* get_device_telemetry made meanwhile returns the last_seen, status and
\* records from before; when the INSERT fails the database stays so, the
\* device update is lost with the record; once committed, the device update
\* and the telemetry record are both there, as handle_telemetry as a whole
\* leaves them.
C19_TelemetryWriteIsAtomic ==
    /\ Uncommitted =>
            /\ devices = txn.before.devices
            /\ telemetry = txn.before.telemetry
            /\ last.op = "get_device_list" =>
                    last.result = get_device_list(txn.before.devices)
            /\ last.op = "get_device_telemetry" =>
                    last.result = get_device_telemetry(
                        txn.before.telemetry, last.device_id, last.limit)
    /\ txn.pc = "committed" =>
            /\ devices = WholeTelemetry.devices
            /\ telemetry = WholeTelemetry.telemetry
            /\ Len(telemetry) = Len(txn.before.telemetry) + 1

\* C19 witness: between the INSERT and the commit of a telemetry message of
\* the registered device d1, a device list was read: it shows d1 with the
\* last_seen from before the message, earlier than the one the open
\* transaction holds.
C19_Witness ==
    /\ txn.pc = "inserted"
    /\ txn.device_id = Str("d1")
    /\ last.op = "get_device_list"
    /\ Len(last.result) >= 1
    /\ last.result[1].device_id = Str("d1")
    /\ last.result[1].last_seen < txn.conn.devices[Str("d1")].last_seen
    /\ Len(txn.conn.telemetry) = Len(telemetry) + 1

IsPrefix(a, b) == Len(a) <= Len(b) /\ SubSeq(b, 1, Len(a)) = a
\* The handler the step ran to its end, if it ran one.
Completed(h) ==
    /\ last'.op = "on_mqtt_message"
    /\ last'.called # <<>>
    /\ last'.called[1] = h
    /\ ~last'.raised

\* C20: every step of the hub (a message of any class, an upload, a read,
\* a return) keeps every record of telemetry, mesh_messages and ota_updates
\* as it was and in place; a handled telemetry message adds one telemetry
\* record and nothing else, a handled mesh message one mesh record, a
\* handled upload one catalog record, and every other step adds none.
C20_StoresAppendOnly ==
    [][ /\ IsPrefix(telemetry, telemetry')
        /\ IsPrefix(mesh_messages, mesh_messages')
        /\ IsPrefix(ota_updates, ota_updates')
        /\ << Len(telemetry') - Len(telemetry),
              Len(mesh_messages') - Len(mesh_messages),
              Len(ota_updates') - Len(ota_updates) >>
           = IF Completed("handle_telemetry") THEN <<1, 0, 0>>
             ELSE IF Completed("handle_mesh_message") THEN <<0, 1, 0>>
             ELSE IF last'.op = "upload_ota" /\ ~last'.raised THEN <<0, 0, 1>>
             ELSE <<0, 0, 0>> ]_vars

\* C20 witness: with telemetry of d1, a mesh record and a catalog record
\* stored, d1 registered again; the three stores are as before.
C20_Witness ==
    /\ RegisteredOk
    /\ last.called[2] = Str("d1")
    /\ Str("d1") \in DOMAIN last.before.devices
    /\ \E i \in 1..Len(telemetry) : telemetry[i].device_id = Str("d1")
    /\ mesh_messages # <<>>
    /\ ota_updates # <<>>
    /\ telemetry = last.before.telemetry

\* The telemetry records of d, as positions in the store.
RecordsOf(d) == { i \in 1..Len(telemetry) : telemetry[i].device_id = d }
\* The record of d inserted last.
LatestRecordOf(d) ==
    telemetry[CHOOSE i \in RecordsOf(d) : \A j \in RecordsOf(d) : j <= i]

\* C21: whenever no telemetry message is being handled, every device id in
\* the cache has a telemetry record, and its cached telemetry is what the
\* data of its most recently inserted record decodes to.
C21_CacheDerivedFromStore ==
    txn = NoTxn =>
        \A d \in DOMAIN self_devices :
            /\ RecordsOf(d) # {}
            /\ self_devices[d].telemetry = json_loads(LatestRecordOf(d).data)

\* C21 witness: two telemetry messages of d1 with different data were
\* handled; the cache holds what the second record decodes to.
C21_Witness ==
    /\ txn = NoTxn
    /\ Str("d1") \in DOMAIN self_devices
    /\ Cardinality(RecordsOf(Str("d1"))) = 2
    /\ telemetry[1].data # telemetry[2].data
    /\ self_devices[Str("d1")].telemetry = json_loads(telemetry[2].data)

\* C22: a message whose topic does not start with the namespace tdeckpro,
\* or whose second segment is not the client's device id d1, makes
\* _on_message call no handler.
C22_ForeignTopicNotHandled ==
    ( /\ ClientHandled
      /\ \/ Segment(last.topic, 1) # Str("tdeckpro")
         \/ Segment(last.topic, 2) # Str("d1") )
    => last.invoked = <<>>

\* The bytes GET <download_url> serves for a catalog row: download_url is
\* /ota/download/<filename>, routed to download_ota(filename).
Served(row) == download_ota(ota_files, row.filename)

\* C23: for every OTA catalog entry, in every reachable state, the checksum
\* stored with the entry, and the one check_for_updates returns, is the
\* content hash of the bytes a download of the entry's download_url returns,
\* also for an earlier entry after a later upload of the same filename with
\* other content.
C23_ChecksumMatchesDownload ==
    /\ \A i \in 1..Len(ota_updates) :
           /\ Served(ota_updates[i]).status = 200
           /\ ota_updates[i].checksum = sha256(Served(ota_updates[i]).content)
    /\ (last.op = "check_for_updates" /\ last.result.available) =>
           LET served == download_ota(ota_files, last.result.filename)
           IN  /\ last.result.download_url
                     = <<"/ota/download/">> \o last.result.filename
               /\ served.status = 200
               /\ last.result.checksum = sha256(served.content)

\* The register message of the device.
RegisterMessage ==
    [topic |-> <<"tdeckpro", "/">> \o DeviceId \o <<"/", "register">>,
     payload |-> json_dumps(DeviceInfo)]

\* C24: when the broker is reachable and accepts the connection (and a
\* publish on the connection would succeed), initialize() publishes the
\* device's register message and returns True, however _on_connect
\* interleaves with the register_device call that follows connect().
C24_InitializeRegisters ==
    ( /\ last.op = "initialize"
      /\ last.pc = "done"
      /\ last.connack = 0
      /\ last.rc = "MQTT_ERR_SUCCESS" ) =>
        /\ last.returned = "True"
        /\ last.sent = <<RegisterMessage>>

Sends ==
    {"register_device", "send_telemetry", "send_status", "send_mesh_message"}

\* The flag is True only if the most recent connection event was a
\* successful _on_connect.
FlagFollowsLastEvent == connected => event = "_on_connect_ok"

\* With the flag False a send returns False and publishes nothing; a send
\* that publishes does so once and returns the outcome as a boolean.
SendsGuardedOneShot ==
    last.op \in Sends =>
        /\ ~last.connected => last.returned = "False" /\ last.sent = <<>>
        /\ last.connected =>
              /\ Len(last.sent) = 1
              /\ last.returned
                    = (IF last.rc = "MQTT_ERR_SUCCESS" THEN "True" ELSE "False")

\* C25: after any sequence of connect, connection callbacks, disconnect
\* callbacks and disconnect() calls, the connected flag is True only if the
\* most recent connection event was a successful _on_connect (rc = 0);
\* whenever the flag is False the four sends return False and publish
\* nothing, and whenever they publish they return the publish outcome as a
\* boolean without retrying.
C25_FlagAndSends == FlagFollowsLastEvent /\ SendsGuardedOneShot
====
